---- MODULE Spec2Model ----
(***************************************************************************)
(* Model of src/App.tsx: the BLE connection manager of the ESP32 siren     *)
(* monitor.  The React component's refs and state are the variables; each  *)
(* action is one event handler or one promise continuation (the code that  *)
(* runs between two Web Bluetooth calls).  The Web Bluetooth objects the   *)
(* code registers listeners on (devices, characteristics) are modelled by  *)
(* the sets of listeners they hold.                                        *)
(***************************************************************************)
EXTENDS Integers, Sequences, FiniteSets, TLC

\* ---------------------------------------------------------------- bounds
MaxClicks == 1      \* user clicks on "Connect BLE" per page load
MaxGen == 2         \* GATT links established per device and page load

\* ------------------------------------------------------------- constants
LogCap == 100       \* App.tsx:20  .slice(0, 100)

Devices == {"d1", "d2"}
NoDev == "none"
NoChar == <<"none", 0>>
NoId == "none"

Auto == 0                       \* the run of the startup effect
Last == MaxClicks + 1           \* the run of a click made after all runs ended
RunIds == 0..Last               \* 1..Last: runs of connectBLE
Event == Last + 1               \* the caller of append in onDisconnect
Callers == 0..Event

\* Errors a Web Bluetooth promise rejects with: name and what the message
\* mentions.
Err(name, text) == [name |-> name, text |-> text]
Errors == {Err("SecurityError", "plain"), Err("NetworkError", "gesture"),
           Err("NotFoundError", "activation"), Err("NetworkError", "plain")}

VARIABLES
    status,                \* useState("Disconnected")
    log,                   \* useState<string[]>([]): per caller of append, its lines, newest first
    charRef,               \* charRef.current
    notifyHandlerRef,      \* notifyHandlerRef.current is set
    deviceRef,             \* deviceRef.current
    disconnectHandlerRef,  \* disconnectHandlerRef.current: generation of the closure, 0 = null
    autoConnectAttemptedRef,
    store,                 \* localStorage[DEVICE_STORAGE_KEY]
    gen,                   \* number of onDisconnect closures created so far
    discHandlers,          \* per device: the "gattserverdisconnected" listeners
    listeners,             \* characteristics holding a "characteristicvaluechanged" listener
    linkUp,                \* device.gatt.connected
    linkGen,               \* per device: links established so far
    hasBluetooth,          \* navigator.bluetooth is defined
    hasGetDevices,         \* typeof navigator.bluetooth.getDevices === "function"
    run,                   \* per run: position and locals
    again,                 \* the user clicks once more after all runs ended
    clicks                 \* clicks handled since the page was loaded

vars == <<status, log, charRef, notifyHandlerRef, deviceRef, disconnectHandlerRef,
          autoConnectAttemptedRef, store, gen, discHandlers, listeners, linkUp,
          linkGen, hasBluetooth, hasGetDevices, run, again, clicks>>

\* The part of the state the synchronous code of the component reads and
\* writes, as one record, so that calls can be chained.  The field sets
\* collects the values setStatus is called with while the code runs.
Cur(who) ==
    [who |-> who, status |-> status, log |-> log, charRef |-> charRef,
     notifyHandlerRef |-> notifyHandlerRef, deviceRef |-> deviceRef,
     disconnectHandlerRef |-> disconnectHandlerRef, store |-> store, gen |-> gen,
     discHandlers |-> discHandlers, listeners |-> listeners, sets |-> {}]

Commit(S) ==
    /\ status' = S.status
    /\ log' = S.log
    /\ charRef' = S.charRef
    /\ notifyHandlerRef' = S.notifyHandlerRef
    /\ deviceRef' = S.deviceRef
    /\ disconnectHandlerRef' = S.disconnectHandlerRef
    /\ store' = S.store
    /\ gen' = S.gen
    /\ discHandlers' = S.discHandlers
    /\ listeners' = S.listeners

Msg(k, d) == [k |-> k, d |-> d]

\* append: prepend the line.  The log is kept per caller (the lines of two
\* callers are not ordered against each other); fewer than LogCap lines are
\* appended per page load (LogWithinCap), so slice(0, 100) drops nothing.
append(S, m) == [S EXCEPT !.log[S.who] = <<m>> \o @]

RECURSIVE Lines(_, _)
Lines(l, c) == IF c < 0 THEN 0 ELSE Len(l[c]) + Lines(l, c - 1)

setStatus(S, s) == [S EXCEPT !.status = s, !.sets = @ \cup {s}]

\* A run: its position (pc), its locals (tier, dev, svc, ch, ret) and its
\* history: the Web Bluetooth calls made (calls), an error reported (err),
\* the status was Waiting at the click (wait), the chooser's outcome (sel),
\* localStorage's value when the run began (store0), per failed
\* connectToDevice its tier and whether it set the error status (fails), and,
\* while the run lasts, the tiers whose connectToDevice failed resolving the
\* service or the characteristic (neg).
IdleRun ==
    [pc |-> "idle", tier |-> 0, dev |-> NoDev, svc |-> 0, ch |-> NoChar,
     ret |-> "none", calls |-> {}, err |-> FALSE, wait |-> FALSE,
     sel |-> "none", store0 |-> NoId, fails |-> {}, neg |-> {}]

\* Lines of the log and statuses that report a failure.
ErrKinds == {"Error", "Quick reconnect failed", "Auto reconnect failed"}
ErrStatuses == {"Error / Cancelled", "Auto reconnect failed"}

\* Did the synchronous code that took S0 to S1 set an error status or append
\* an error line (history, kept per run in the field err).
Emitted(S0, S1) ==
    \/ S1.status # S0.status /\ S1.status \in ErrStatuses
    \/ \E i \in 1..(Len(S1.log[S1.who]) - Len(S0.log[S0.who])) :
           S1.log[S1.who][i].k \in ErrKinds

\* ------------------------------------------------- the component's code

\* setupNotifications up to its await: drop the listener of the current
\* characteristic, then record the new one.
setupNotifications(S, characteristic) ==
    LET S1 == IF S.charRef # NoChar /\ S.notifyHandlerRef
              THEN [S EXCEPT !.listeners = @ \ {S.charRef}]
              ELSE S
    IN  [S1 EXCEPT !.charRef = characteristic, !.notifyHandlerRef = TRUE]

\* setupNotifications after startNotifications() resolved.
addValueListener(S, characteristic) ==
    [S EXCEPT !.listeners = @ \cup {characteristic}]

\* Variant: the observer also forgets the remembered id.
onDisconnect_forget(S) ==
    [append(setStatus(S, "Disconnected"), Msg("Device disconnected", NoDev))
        EXCEPT !.charRef = NoChar, !.store = NoId]

\* Variant: the observer also empties the current-device slot.
onDisconnect_clearDevice(S) ==
    [append(setStatus(S, "Disconnected"), Msg("Device disconnected", NoDev))
        EXCEPT !.charRef = NoChar, !.deviceRef = NoDev]

onDisconnect(S) ==
    [append(setStatus(S, "Disconnected"), Msg("Device disconnected", NoDev))
        EXCEPT !.charRef = NoChar]

registerDisconnectHandler(S, device) ==
    LET S1 == IF S.deviceRef # NoDev /\ S.disconnectHandlerRef # 0
              THEN [S EXCEPT !.discHandlers[S.deviceRef] = @ \ {S.disconnectHandlerRef}]
              ELSE S
        g  == S.gen + 1
    IN  [S1 EXCEPT !.discHandlers[device] = @ \cup {g},
                   !.deviceRef = device,
                   !.disconnectHandlerRef = g,
                   !.gen = g]

\* Variant: the "Connecting to" line is not logged.
connectToDevice_quiet(S, device) ==
    setStatus(registerDisconnectHandler(S, device), "Connecting")

\* connectToDevice up to device.gatt.connect().
connectToDevice(S, device) ==
    append(setStatus(registerDisconnectHandler(S, device), "Connecting"),
           Msg("Connecting to", device))

\* connectToDevice after setupNotifications returned.
connectToDeviceOk(S) ==
    append(setStatus(S, "Connected"), Msg("Connected & listening", NoDev))

\* Variant: the catch block sets the error status whatever the option.
connectToDeviceCatch_alwaysShown(S, suppressErrorStatus) ==
    [S |-> append(setStatus([S EXCEPT !.charRef = NoChar], "Error / Cancelled"),
                  Msg("Error", NoDev)),
     ret |-> "failed"]

\* Variant: the catch block reports and rethrows.
connectToDeviceCatch_rethrow(S, suppressErrorStatus) ==
    [S |-> append(setStatus(S, "Error / Cancelled"), Msg("Error", NoDev)),
     ret |-> "thrown"]

\* The catch block of connectToDevice; its value is the state and the way
\* the call ends ("failed": { ok: false, error } is returned).
connectToDeviceCatch(S, suppressErrorStatus) ==
    LET S1 == [S EXCEPT !.charRef = NoChar]
        S2 == IF ~suppressErrorStatus THEN setStatus(S1, "Error / Cancelled") ELSE S1
    IN  [S |-> append(S2, Msg("Error", NoDev)), ret |-> "failed"]

\* Variant: only the name of the error is looked at.
requiresGesture_nameOnly(e) == e.name = "SecurityError"

\* /gesture|activation/i.test(message) || error.name === "SecurityError"
requiresGesture(e) ==
    e.name = "SecurityError" \/ e.text \in {"gesture", "activation"}

\* A run entering connectToDevice.
BeginConnect(S, R, device, tier) ==
    [S |-> connectToDevice(S, device),
     R |-> [R EXCEPT !.pc = "connect", !.tier = tier, !.dev = device,
                     !.svc = 0, !.ch = NoChar, !.ret = "none",
                     !.calls = @ \cup {"connect"}]]

Finish(S, R) ==
    [S |-> S, R |-> [R EXCEPT !.pc = "done", !.svc = 0, !.ch = NoChar, !.neg = {}]]

requestDeviceAndConnect(S, R) ==
    IF ~hasBluetooth
    THEN Finish(append(setStatus(S, "Web Bluetooth unavailable"),
                       Msg("Web Bluetooth API is not available", NoDev)),
                [R EXCEPT !.tier = 3])
    ELSE [S |-> setStatus(S, "Requesting device"),
          R |-> [R EXCEPT !.pc = "requestDevice", !.tier = 3,
                          !.calls = @ \cup {"requestDevice"}]]

\* connectBLE from line 125: the saved-devices lookup, else the chooser.
\* The field dev holds rememberedId while getDevices() is pending.
quickReconnect(S, R) ==
    IF S.store # NoId /\ hasBluetooth /\ hasGetDevices
    THEN [S |-> append(S, Msg("Checking saved devices list", NoDev)),
          R |-> [R EXCEPT !.pc = "getDevices", !.tier = 2, !.dev = S.store,
                          !.calls = @ \cup {"getDevices"}]]
    ELSE requestDeviceAndConnect(S, R)

\* Variant: the test of result.ok is inverted.
autoAfterConnect_inverted(S, R, ok, e) ==
    IF ~ok THEN Finish(S, R)
    ELSE IF requiresGesture(e)
         THEN Finish([setStatus(append(S, Msg("Browser requires a user gesture", NoDev)),
                                "Waiting for user action")
                        EXCEPT !.deviceRef = R.dev], R)
         ELSE Finish(setStatus(append(S, Msg("Auto reconnect failed", NoDev)),
                               "Auto reconnect failed"), R)

\* Variant: the id is not persisted before the connect attempt.
deviceChosen_persistLater(S, R, device) ==
    BeginConnect(append(S, Msg("Saved device id", device)),
                 [R EXCEPT !.sel = "chosen"], device, 3)

\* requestDeviceAndConnect, lines 112-115, after requestDevice() resolved
\* with the device the user chose.
deviceChosen(S, R, device) ==
    BeginConnect(append([S EXCEPT !.store = device], Msg("Saved device id", device)),
                 [R EXCEPT !.sel = "chosen"], device, 3)

\* Variant: a cancelled chooser clears the remembered id.
selectionCancelled_clear(S, R) ==
    Finish([S EXCEPT !.store = NoId], [R EXCEPT !.sel = "cancelled"])

\* requestDevice() rejected: requestDeviceAndConnect throws at line 107 and
\* the catch of connectBLE, lines 149-151, ends the run.
selectionCancelled(S, R) == Finish(S, [R EXCEPT !.sel = "cancelled"])

\* The startup effect after connectToDevice(saved, {suppressErrorStatus: true}).
autoAfterConnect(S, R, ok, e) ==
    IF ok THEN Finish(S, R)
    ELSE IF requiresGesture(e)
         THEN Finish([setStatus(append(S, Msg("Browser requires a user gesture", NoDev)),
                                "Waiting for user action")
                        EXCEPT !.deviceRef = R.dev], R)
         ELSE Finish(setStatus(append(S, Msg("Auto reconnect failed", NoDev)),
                               "Auto reconnect failed"), R)

\* Variant: the startup effect opens the chooser when its attempt failed.
afterConnect_autoEscalates(S, R, ok, e) ==
    CASE R.tier = 0 -> IF ok THEN Finish(S, R) ELSE requestDeviceAndConnect(S, R)
      [] R.tier = 1 -> IF ok THEN Finish(S, R) ELSE quickReconnect(S, R)
      [] R.tier = 2 -> IF ok THEN Finish(S, R) ELSE requestDeviceAndConnect(S, R)
      [] OTHER      -> Finish(S, R)

\* Variant: the return after a successful in-memory attempt is missing.
afterConnect_noReturn(S, R, ok, e) ==
    CASE R.tier = 0 -> autoAfterConnect(S, R, ok, e)
      [] R.tier = 1 -> quickReconnect(S, R)
      [] R.tier = 2 -> IF ok THEN Finish(S, R) ELSE requestDeviceAndConnect(S, R)
      [] OTHER      -> Finish(S, R)

\* Variant: a failed in-memory attempt is made again at once.
afterConnect_retry(S, R, ok, e) ==
    CASE R.tier = 0 -> autoAfterConnect(S, R, ok, e)
      [] R.tier = 1 -> IF ok THEN Finish(S, R) ELSE BeginConnect(S, R, R.dev, 1)
      [] R.tier = 2 -> IF ok THEN Finish(S, R) ELSE requestDeviceAndConnect(S, R)
      [] OTHER      -> Finish(S, R)

\* The caller's code after "await connectToDevice(...)".
afterConnect(S, R, ok, e) ==
    CASE R.tier = 0 -> autoAfterConnect(S, R, ok, e)
      [] R.tier = 1 -> IF ok THEN Finish(S, R) ELSE quickReconnect(S, R)
      [] R.tier = 2 -> IF ok THEN Finish(S, R) ELSE requestDeviceAndConnect(S, R)
      [] OTHER      -> Finish(S, R)

\* Commit the state and the run, keeping the run's history field err.
Step(r, S0, X) ==
    /\ Commit(X.S)
    /\ run' = [run EXCEPT ![r] = [X.R EXCEPT !.err = @ \/ Emitted(S0, X.S)]]

Platform == <<hasBluetooth, hasGetDevices, again>>
Link == <<linkUp, linkGen>>

\* What the caller does when "await connectToDevice(...)" throws: the startup
\* effect's .catch (206-210), nothing in connectBLE at line 121, the catch of
\* lines 138-141, the catch of lines 149-151.
afterThrow(S, R) ==
    CASE R.tier = 0 -> Finish(setStatus(append(S, Msg("Auto reconnect failed", NoDev)),
                                        "Auto reconnect failed"), R)
      [] R.tier = 1 -> [S |-> S, R |-> [R EXCEPT !.pc = "unhandled"]]
      [] R.tier = 2 -> requestDeviceAndConnect(
                           append(S, Msg("Quick reconnect failed", NoDev)), R)
      [] OTHER      -> Finish(S, R)

\* ---------------------------------------------------------------- Init
Init ==
    /\ status = "Disconnected"
    /\ log = [c \in Callers |-> <<>>]
    /\ charRef = NoChar
    /\ notifyHandlerRef = FALSE
    /\ deviceRef = NoDev
    /\ disconnectHandlerRef = 0
    /\ autoConnectAttemptedRef = FALSE
    /\ store \in {NoId} \cup Devices
    /\ gen = 0
    /\ discHandlers = [d \in Devices |-> {}]
    /\ listeners = {}
    /\ linkUp = [d \in Devices |-> FALSE]
    /\ linkGen = [d \in Devices |-> 0]
    /\ hasBluetooth \in BOOLEAN
    /\ hasGetDevices \in BOOLEAN
    /\ hasGetDevices => hasBluetooth
    /\ run = [r \in RunIds |-> IdleRun]
    /\ clicks = 0
    /\ again = FALSE

\* A page load on a browser with getDevices() and a remembered device, where
\* the user clicks once more after every run has ended.
InitAgain ==
    /\ status = "Disconnected"
    /\ log = [c \in Callers |-> <<>>]
    /\ charRef = NoChar
    /\ notifyHandlerRef = FALSE
    /\ deviceRef = NoDev
    /\ disconnectHandlerRef = 0
    /\ autoConnectAttemptedRef = FALSE
    /\ store \in Devices
    /\ gen = 0
    /\ discHandlers = [d \in Devices |-> {}]
    /\ listeners = {}
    /\ linkUp = [d \in Devices |-> FALSE]
    /\ linkGen = [d \in Devices |-> 0]
    /\ hasBluetooth = TRUE
    /\ hasGetDevices = TRUE
    /\ run = [r \in RunIds |-> IdleRun]
    /\ clicks = 0
    /\ again = TRUE

\* -------------------------------------------------------------- actions

\* Variant: the test of rememberedId is missing.
autoReconnect_noIdCheck(S, R) ==
    IF ~hasBluetooth
    THEN Finish(append(setStatus(S, "Web Bluetooth unavailable"),
                       Msg("Web Bluetooth API is not available", NoDev)), R)
    ELSE IF ~hasGetDevices
    THEN Finish(append(S, Msg("Auto reconnect not supported", NoDev)), R)
    ELSE [S |-> append(setStatus(S, "Checking saved devices"),
                       Msg("Attempting automatic reconnect", NoDev)),
          R |-> [R EXCEPT !.pc = "getDevices", !.dev = S.store,
                          !.calls = @ \cup {"getDevices"}]]

\* The body of the startup effect, lines 158-178.
autoReconnect(S, R) ==
    IF ~hasBluetooth
    THEN Finish(append(setStatus(S, "Web Bluetooth unavailable"),
                       Msg("Web Bluetooth API is not available", NoDev)), R)
    ELSE IF ~hasGetDevices
    THEN Finish(append(S, Msg("Auto reconnect not supported", NoDev)), R)
    ELSE IF S.store = NoId
    THEN Finish(append(S, Msg("No saved device id", NoDev)), R)
    ELSE [S |-> append(setStatus(S, "Checking saved devices"),
                       Msg("Attempting automatic reconnect", NoDev)),
          R |-> [R EXCEPT !.pc = "getDevices", !.dev = S.store,
                          !.calls = @ \cup {"getDevices"}]]

\* useEffect, lines 154-178, up to navigator.bluetooth.getDevices().
AutoReconnect ==
    /\ ~autoConnectAttemptedRef
    /\ autoConnectAttemptedRef' = TRUE
    /\ Step(Auto, Cur(Auto),
            autoReconnect(Cur(Auto), [run[Auto] EXCEPT !.store0 = store]))
    /\ UNCHANGED <<Link, Platform, clicks>>

\* The .then callback of the startup effect, lines 179-189: getDevices()
\* resolved, with or without the device whose id is rememberedId.
AutoGetDevicesResolved(found) ==
    /\ run[Auto].pc = "getDevices"
    /\ LET S == Cur(Auto)
           R == run[Auto]
       IN  Step(Auto, S,
             IF ~found
             THEN Finish(setStatus(append(S, Msg("Previously saved device not found", NoDev)),
                                   "Disconnected"), R)
             ELSE BeginConnect(append(S, Msg("Found saved device", R.dev)), R, R.dev, 0))
    /\ UNCHANGED <<autoConnectAttemptedRef, Link, Platform, clicks>>

\* The .catch of the startup effect, lines 206-210: getDevices() rejected.
AutoGetDevicesRejected ==
    /\ run[Auto].pc = "getDevices"
    /\ LET S == Cur(Auto)
       IN  Step(Auto, S,
                Finish(setStatus(append(S, Msg("Auto reconnect failed", NoDev)),
                                 "Auto reconnect failed"), run[Auto]))
    /\ UNCHANGED <<autoConnectAttemptedRef, Link, Platform, clicks>>

Pending(R) == R.pc \notin {"idle", "done", "unhandled"}

\* Variant: the device held in memory is not tried first.
connectBLE_skipMemory(S, R) == quickReconnect(S, R)

\* connectBLE, lines 119-123, up to its first await.
connectBLE(S, R) ==
    IF S.deviceRef # NoDev
    THEN BeginConnect(append(S, Msg("Attempting to reconnect using saved device in memory", NoDev)),
                      R, S.deviceRef, 1)
    ELSE quickReconnect(S, R)

\* A click on "Connect BLE": connectBLE, lines 118-129 (or 145 and 98-107),
\* up to its first await.  React runs the pending effect before it handles
\* a click.
ConnectBLE ==
    /\ autoConnectAttemptedRef
    /\ \/ clicks < MaxClicks
       \/ clicks = MaxClicks /\ again /\ \A q \in RunIds : ~Pending(run[q])
    /\ clicks' = clicks + 1
    /\ LET r == clicks + 1
           S == Cur(r)
           R == [run[r] EXCEPT !.wait = (S.status = "Waiting for user action"),
                               !.store0 = store]
       IN  Step(r, S, connectBLE(S, R))
    /\ UNCHANGED <<autoConnectAttemptedRef, Link, Platform>>

\* connectBLE, lines 129-137 and on: getDevices() resolved.
GetDevicesResolved(r, found) ==
    /\ r # Auto
    /\ run[r].pc = "getDevices"
    /\ LET S == Cur(r)
           R == run[r]
       IN  Step(r, S,
             IF found
             THEN BeginConnect([S EXCEPT !.deviceRef = R.dev], R, R.dev, 2)
             ELSE requestDeviceAndConnect(
                      append(S, Msg("Saved device not found in getDevices result", NoDev)), R))
    /\ UNCHANGED <<autoConnectAttemptedRef, Link, Platform, clicks>>

\* connectBLE, lines 138-145: getDevices() rejected.
GetDevicesRejected(r) ==
    /\ r # Auto
    /\ run[r].pc = "getDevices"
    /\ LET S == Cur(r)
       IN  Step(r, S, requestDeviceAndConnect(
                          append(S, Msg("Quick reconnect failed", NoDev)), run[r]))
    /\ UNCHANGED <<autoConnectAttemptedRef, Link, Platform, clicks>>

\* requestDeviceAndConnect, lines 112-115: the user chose a device.
RequestDeviceResolved(r, device) ==
    /\ run[r].pc = "requestDevice"
    /\ Step(r, Cur(r), deviceChosen(Cur(r), run[r], device))
    /\ UNCHANGED <<autoConnectAttemptedRef, Link, Platform, clicks>>

\* requestDevice() rejected (the chooser was cancelled): requestDeviceAndConnect
\* throws and connectBLE's catch, lines 149-151, swallows it.
RequestDeviceRejected(r) ==
    /\ run[r].pc = "requestDevice"
    /\ Step(r, Cur(r), selectionCancelled(Cur(r), run[r]))
    /\ UNCHANGED <<autoConnectAttemptedRef, Link, Platform, clicks>>

\* connectToDevice, line 78: device.gatt.connect() resolved.  A link that was
\* down is a new link; connect() on a connected device resolves at once.
GattConnectResolved(r) ==
    /\ run[r].pc = "connect"
    /\ LET d == run[r].dev
       IN  /\ linkUp[d] \/ linkGen[d] < MaxGen
           /\ linkUp' = [linkUp EXCEPT ![d] = TRUE]
           /\ linkGen' = [linkGen EXCEPT ![d] = IF linkUp[d] THEN @ ELSE @ + 1]
    /\ run' = [run EXCEPT ![r].pc = "getPrimaryService"]
    /\ UNCHANGED <<status, log, charRef, notifyHandlerRef, deviceRef,
                   disconnectHandlerRef, autoConnectAttemptedRef, store, gen,
                   discHandlers, listeners, Platform, clicks>>

\* connectToDevice, line 79: getPrimaryService() resolved.  The service object
\* belongs to the link it was read over.
GetPrimaryServiceResolved(r) ==
    /\ run[r].pc = "getPrimaryService"
    /\ linkUp[run[r].dev]
    /\ run' = [run EXCEPT ![r].pc = "getCharacteristic",
                          ![r].svc = linkGen[run[r].dev]]
    /\ UNCHANGED <<status, log, charRef, notifyHandlerRef, deviceRef,
                   disconnectHandlerRef, autoConnectAttemptedRef, store, gen,
                   discHandlers, listeners, Link, Platform, clicks>>

\* connectToDevice, lines 80-82 and setupNotifications, lines 40-47:
\* getCharacteristic() resolved with the characteristic object of this link.
GetCharacteristicResolved(r) ==
    /\ run[r].pc = "getCharacteristic"
    /\ linkUp[run[r].dev]
    /\ linkGen[run[r].dev] = run[r].svc
    /\ LET S == Cur(r)
           characteristic == <<run[r].dev, run[r].svc>>
       IN  Step(r, S, [S |-> setupNotifications(S, characteristic),
                       R |-> [run[r] EXCEPT !.pc = "startNotifications",
                                            !.ch = characteristic]])
    /\ UNCHANGED <<autoConnectAttemptedRef, Link, Platform, clicks>>

\* setupNotifications, line 48, connectToDevice, lines 84-86, and the caller's
\* code after the await: startNotifications() resolved.
StartNotificationsResolved(r) ==
    /\ run[r].pc = "startNotifications"
    /\ linkUp[run[r].dev]
    /\ linkGen[run[r].dev] = run[r].ch[2]
    /\ LET S == Cur(r)
           S1 == connectToDeviceOk(addValueListener(S, run[r].ch))
       IN  Step(r, S, afterConnect(S1, [run[r] EXCEPT !.ret = "ok"], TRUE,
                                   CHOOSE e \in Errors : TRUE))
    /\ UNCHANGED <<autoConnectAttemptedRef, Link, Platform, clicks>>

\* Variant: no caller passes the option.
suppressErrorStatus_never(tier) == FALSE

\* options.suppressErrorStatus as the caller of connectToDevice passes it:
\* true at line 189, absent (options = {}) at lines 115, 121 and 133.
suppressErrorStatus(tier) == tier = 0

\* The run waits for the service or the characteristic to be resolved
\* (lines 79-80), the link being established.
Negotiating(R) == R.pc \in {"getPrimaryService", "getCharacteristic"}

InConnect(R) ==
    R.pc \in {"connect", "getPrimaryService", "getCharacteristic", "startNotifications"}

\* connectToDevice, lines 87-95, and the caller's code after the await: one
\* of the four awaited calls rejected with e.
TransportRejected(r, e) ==
    /\ InConnect(run[r])
    /\ LET S == Cur(r)
           C == connectToDeviceCatch(S, suppressErrorStatus(run[r].tier))
           f == [tier |-> run[r].tier, shown |-> "Error / Cancelled" \in C.S.sets]
           R == [run[r] EXCEPT !.ret = C.ret, !.fails = @ \cup {f},
                               !.neg = IF Negotiating(run[r]) THEN @ \cup {run[r].tier}
                                                              ELSE @]
       IN  Step(r, S, IF C.ret = "failed"
                      THEN afterConnect(C.S, R, FALSE, e)
                      ELSE afterThrow(C.S, R))
    /\ UNCHANGED <<autoConnectAttemptedRef, Link, Platform, clicks>>

RECURSIVE Dispatch(_, _)
\* Every listener of the event runs once.
Dispatch(S, n) == IF n = 0 THEN S ELSE Dispatch(onDisconnect(S), n - 1)

\* The link to device d drops: "gattserverdisconnected" is dispatched to the
\* listeners registered on d (lines 56-60).
gattserverdisconnected(d) ==
    /\ linkUp[d]
    /\ linkUp' = [linkUp EXCEPT ![d] = FALSE]
    /\ Commit(Dispatch(Cur(Event), Cardinality(discHandlers[d])))
    /\ UNCHANGED <<autoConnectAttemptedRef, linkGen, Platform, run, clicks>>

\* The page is reloaded: the component is constructed again (lines 10-17),
\* the Web Bluetooth objects of the old page are gone, localStorage stays.
Reload ==
    /\ autoConnectAttemptedRef
    /\ status' = "Disconnected"
    /\ log' = [c \in Callers |-> <<>>]
    /\ charRef' = NoChar
    /\ notifyHandlerRef' = FALSE
    /\ deviceRef' = NoDev
    /\ disconnectHandlerRef' = 0
    /\ autoConnectAttemptedRef' = FALSE
    /\ gen' = 0
    /\ discHandlers' = [d \in Devices |-> {}]
    /\ listeners' = {}
    /\ linkUp' = [d \in Devices |-> FALSE]
    /\ linkGen' = [d \in Devices |-> 0]
    /\ run' = [r \in RunIds |-> IdleRun]
    /\ clicks' = 0
    /\ UNCHANGED <<store, Platform>>

Next ==
    \/ AutoReconnect
    \/ \E found \in BOOLEAN : AutoGetDevicesResolved(found)
    \/ AutoGetDevicesRejected
    \/ ConnectBLE
    \/ \E r \in RunIds, found \in BOOLEAN : GetDevicesResolved(r, found)
    \/ \E r \in RunIds : GetDevicesRejected(r)
    \/ \E r \in RunIds, device \in Devices : RequestDeviceResolved(r, device)
    \/ \E r \in RunIds : RequestDeviceRejected(r)
    \/ \E r \in RunIds : GattConnectResolved(r)
    \/ \E r \in RunIds : GetPrimaryServiceResolved(r)
    \/ \E r \in RunIds : GetCharacteristicResolved(r)
    \/ \E r \in RunIds : StartNotificationsResolved(r)
    \/ \E r \in RunIds, e \in Errors : TransportRejected(r, e)
    \/ \E d \in Devices : gattserverdisconnected(d)
    \/ Reload

Spec == Init /\ [][Next]_vars

SpecAgain == InitAgain /\ [][Next]_vars

\* The lines appended since the page was loaded stay below the cap of the
\* log, so that append never drops one.
LogWithinCap == Lines(log, Event) < LogCap

\* ---------------------------------------------------------------- claims

\* C1: at most one payload listener is registered at any time, under every
\* interleaving of connect attempts, disconnect events and reconnects.
C1_AtMostOneListener == Cardinality(listeners) <= 1

\* C2: a disconnect event delivered to the observer of an earlier attempt
\* (a closure older than the current one, left on an earlier peripheral)
\* changes neither the status, nor the current characteristic, nor the
\* current peripheral.
C2_StaleDisconnectIgnored ==
    [][\A d \in Devices :
         (/\ gattserverdisconnected(d)
          /\ discHandlers[d] # {}
          /\ \A h \in discHandlers[d] : h < disconnectHandlerRef)
         => UNCHANGED <<status, charRef, deviceRef>>]_vars

\* C3: at most one run (the startup effect's or a click's) is suspended at
\* a Web Bluetooth call at any time.
C3_OneAttemptInFlight == Cardinality({r \in RunIds : Pending(run[r])}) <= 1

\* The classification of a failure as gesture-required: a security denial,
\* or a failure text that mentions gesture or activation.
GestureRequired(e) ==
    e.name = "SecurityError" \/ e.text = "gesture" \/ e.text = "activation"

Waiting == "Waiting for user action"

\* C4 (as claimed): when the attempt on the device found by getDevices()
\* fails with a gesture-required failure, in the startup run or in a click's
\* run, the status becomes Waiting and the device stays the current one.
C4_GestureFailureWaits ==
    [][\A r \in RunIds, e \in Errors :
         (TransportRejected(r, e) /\ run[r].tier \in {0, 2} /\ GestureRequired(e))
         => (status' = Waiting /\ deviceRef' = run[r].dev)]_vars

\* C4 (amended): in the startup run, when the attempt on the device found by
\* getDevices() fails with a gesture-required failure, the status becomes
\* Waiting and the device stays the current one.
C4_AutoGestureFailureWaits ==
    [][\A e \in Errors :
         (TransportRejected(Auto, e) /\ GestureRequired(e))
         => (status' = Waiting /\ deviceRef' = run[Auto].dev)]_vars

C4_Witness ==
    /\ run[Auto].pc = "done" /\ run[Auto].ret = "failed"
    /\ status = Waiting /\ deviceRef = run[Auto].dev

ClickRuns == 1..Last

\* The first attempt of the click's run r was made on device d: its two
\* oldest lines are the in-memory retry's.
FirstAttemptOn(r, d) ==
    /\ Len(log[r]) >= 2
    /\ log[r][Len(log[r])].k = "Attempting to reconnect using saved device in memory"
    /\ log[r][Len(log[r]) - 1] = Msg("Connecting to", d)

\* C5 (as claimed): a click made while the status is Waiting attempts the
\* retained device and never calls getDevices() during that call.
C5_NoEnumerateAfterWaiting ==
    \A r \in ClickRuns :
        run[r].wait => FirstAttemptOn(r, run[Auto].dev) /\ "getDevices" \notin run[r].calls

\* C5 (amended): a click made while the status is Waiting first attempts the
\* retained device, without calling getDevices() before or during that
\* attempt; getDevices() is called in that run only after the attempt failed.
C5_RetainedDeviceFirst ==
    \A r \in ClickRuns :
        run[r].wait =>
            /\ FirstAttemptOn(r, run[Auto].dev)
            /\ run[r].tier = 1 => run[r].dev = run[Auto].dev /\ "getDevices" \notin run[r].calls
            /\ "getDevices" \in run[r].calls => run[r].tier >= 2 /\ run[r].err

C5_Witness ==
    \E r \in ClickRuns :
        /\ run[r].wait /\ run[r].tier = 1 /\ run[r].ret = "ok"
        /\ run[r].dev = run[Auto].dev

\* C6: connectToDevice never throws: a rejection of any of its four awaited
\* calls ends it with the result "failed", success ends it with "ok", and no
\* run is ended by an exception nobody caught.
C6_NeverThrows ==
    /\ [](\A r \in RunIds : run[r].pc # "unhandled" /\ run[r].ret \in {"none", "ok", "failed"})
    /\ [][\A r \in RunIds :
            /\ (\E e \in Errors : TransportRejected(r, e)) => run'[r].ret = "failed"
            /\ StartNotificationsResolved(r) => run'[r].ret = "ok"]_vars

C6_Witness ==
    \E r \in RunIds :
        /\ run[r].ret = "failed" /\ run[r].pc = "getDevices" /\ run[r].tier = 2
        /\ \E q \in RunIds : run[q].ret = "ok"

RECURSIVE Refs(_, _)
\* The number of lines of l that name device d.
Refs(l, d) ==
    IF l = <<>> THEN 0
    ELSE (IF Head(l).d = d THEN 1 ELSE 0) + Refs(Tail(l), d)

\* The startup run connected, and nothing else has happened since the page
\* was loaded.
AutoConnected ==
    /\ run[Auto].pc = "done" /\ run[Auto].ret = "ok"
    /\ clicks = 0 /\ log[Event] = <<>>

\* C7 (as claimed): a page load with the remembered id in the store, the
\* device found and the connect succeeding ends Connected with exactly one
\* logged line naming the device.
C7_OneLineNamesDevice ==
    AutoConnected => status = "Connected" /\ Refs(log[Auto], store) = 1

\* C7 (amended): ... ends Connected on the remembered device with exactly two
\* logged lines naming it ("Found saved device" and "Connecting to").
C7_TwoLinesNameDevice ==
    AutoConnected =>
        /\ status = "Connected" /\ deviceRef = store
        /\ Refs(log[Auto], store) = 2

C7_Witness == AutoConnected /\ store = "d1" /\ linkUp["d1"]

Active == {"Connecting", "Connected", Waiting}

\* C8 (as claimed): the current-device slot is occupied only while the
\* status is Connecting, Connected or Waiting.
C8_DeviceOnlyWhileActive == deviceRef # NoDev => status \in Active

\* C8 (amended): the slot is occupied whenever the status is Connecting,
\* Connected or Waiting, and it is not emptied by a disconnect event, by the
\* chooser being opened or by a failed attempt: once a connect was attempted
\* it stays occupied.
C8_DeviceKept ==
    (\/ status \in Active
     \/ log[Event] # <<>>
     \/ \E r \in RunIds : "connect" \in run[r].calls)
    => deviceRef # NoDev

C8_Witness ==
    /\ status = "Disconnected" /\ log[Event] # <<>> /\ deviceRef # NoDev
    /\ \E r \in RunIds : run[r].pc = "requestDevice" /\ run[r].ret = "failed"

\* C9: with no remembered id, or without getDevices(), the startup effect
\* makes no Web Bluetooth call: it ends at once, having logged one line, and
\* it never acts again.
C9_AutoSkipsWithoutIdOrCapability ==
    /\ [][(AutoReconnect /\ (store = NoId \/ ~hasGetDevices))
          => /\ run'[Auto].pc = "done" /\ run'[Auto].calls = {}
             /\ Len(log'[Auto]) = 1 /\ ~run'[Auto].err
             /\ status' \in {status, "Web Bluetooth unavailable"}
             /\ UNCHANGED <<charRef, deviceRef, store, discHandlers, listeners, Link>>]_vars
    /\ []((autoConnectAttemptedRef /\ (store = NoId \/ ~hasGetDevices))
          => /\ run[Auto].pc = "done" /\ run[Auto].calls = {}
             /\ Len(log[Auto]) = 1)

C9_Witness ==
    /\ autoConnectAttemptedRef /\ hasGetDevices /\ store = NoId
    /\ run[Auto].pc = "done" /\ run[Auto].calls = {}
    /\ log[Auto] = <<Msg("No saved device id", NoDev)>>

\* C10: when the startup run finds the remembered device and connects, the
\* status is Connected and the run has set no error status and logged no
\* error line.
C10_AutoConnectClean ==
    /\ run[Auto].ret = "ok" =>
           /\ ~run[Auto].err
           /\ \A i \in 1..Len(log[Auto]) : log[Auto][i].k \notin ErrKinds
    /\ AutoConnected => status = "Connected"

C10_Witness ==
    /\ AutoConnected /\ status = "Connected" /\ charRef = <<store, 1>>

\* A run other than r has chosen a device in the chooser.
OtherChose(r) == \E q \in RunIds \ {r} : run[q].sel = "chosen"

\* C11: when the chooser is cancelled (requestDevice() rejects), the
\* remembered id in localStorage is the same after the run as before it:
\* the step leaves it alone, the run ends, and the id still has the value it
\* had when the run began.
C11_CancelKeepsStore ==
    /\ [](\A r \in RunIds :
            (run[r].sel = "cancelled" /\ ~OtherChose(r))
            => store = run[r].store0 /\ run[r].pc = "done")
    /\ [][\A r \in RunIds :
            RequestDeviceRejected(r)
            => store' = store /\ run'[r].sel = "cancelled" /\ run'[r].pc = "done"]_vars

C11_Witness ==
    \E r \in ClickRuns :
        /\ run[r].sel = "cancelled" /\ run[r].pc = "done"
        /\ run[r].fails # {} /\ store = run[r].store0 /\ store # NoId

\* C12: the remembered id is written only when the chooser resolves: every
\* step that changes it is that one, it then equals the chosen device's id,
\* and the startup run never writes it.
C12_StoreWrittenOnlyOnSelection ==
    /\ [][/\ store' # store
             => \E r \in ClickRuns, d \in Devices : RequestDeviceResolved(r, d) /\ store' = d
          /\ \A r \in RunIds, d \in Devices : RequestDeviceResolved(r, d) => store' = d]_vars
    /\ [](run[Auto].sel = "none")

C12_Witness ==
    \E r \in ClickRuns :
        /\ run[r].sel = "chosen" /\ store = run[r].dev
        /\ run[r].store0 \notin {NoId, store}
        /\ run[Auto].ret = "failed" /\ log[Event] # <<>>

\* C13: in the chooser's tier the chosen id is persisted before the connect
\* attempt starts: it is in localStorage while device.gatt.connect() is
\* pending, and a failure of that attempt leaves it there.
C13_PersistedBeforeConnect ==
    /\ [](\A r \in RunIds :
            (run[r].sel = "chosen" /\ ~OtherChose(r)) => store = run[r].dev)
    /\ [][\A r \in RunIds :
            /\ \A d \in Devices :
                 RequestDeviceResolved(r, d)
                 => store' = d /\ run'[r].pc = "connect" /\ run'[r].dev = d
            /\ \A e \in Errors :
                 (TransportRejected(r, e) /\ run[r].tier = 3)
                 => store' = store /\ run'[r].pc = "done"]_vars

C13_Witness ==
    \E r \in ClickRuns :
        /\ run[r].sel = "chosen" /\ run[r].pc = "done" /\ run[r].ret = "failed"
        /\ \E f \in run[r].fails : f.tier = 3
        /\ store = run[r].dev /\ store # run[r].store0

\* C14: the startup effect's body runs at most once per page load and never
\* opens the chooser, whether the remembered device is not found or its
\* connect attempt fails; requestDevice() is only called by a click's run.
C14_AutoOnceNeverInteractive ==
    /\ [](/\ run[Auto].pc # "requestDevice" /\ run[Auto].sel = "none"
          /\ run[Auto].tier = 0
          /\ \A r \in RunIds : "requestDevice" \in run[r].calls => r \in ClickRuns)
    /\ [][/\ AutoReconnect => ~autoConnectAttemptedRef /\ run[Auto] = IdleRun
          /\ (autoConnectAttemptedRef /\ ~Reload) => autoConnectAttemptedRef']_vars

C14_Witness ==
    /\ run[Auto].pc = "done" /\ run[Auto].ret = "failed"
    /\ run[Auto].calls = {"getDevices", "connect"}
    /\ status = "Auto reconnect failed" /\ clicks = 0

\* C15 (as claimed): the payload listener does not outlive its session: the
\* disconnect observer firing, or connectToDevice failing, leaves no
\* listener on any characteristic.
C15_NoListenerAfterSession ==
    [][/\ \A d \in Devices :
             (gattserverdisconnected(d) /\ discHandlers[d] # {}) => listeners' = {}
       /\ \A r \in RunIds, e \in Errors : TransportRejected(r, e) => listeners' = {}]_vars

\* C16 (as claimed): connectToDevice registers the disconnect observer on
\* its device before device.gatt.connect(), having removed the one of the
\* prior device, so that every registered observer is the latest closure:
\* at most one over all devices, on the device of the latest attempt.
C16_OneDisconnectObserver ==
    /\ [](\A d \in Devices : discHandlers[d] \subseteq {gen})
    /\ [][\A r \in RunIds :
            (run[r].pc # "connect" /\ run'[r].pc = "connect")
            => gen' = gen + 1 /\ gen' \in discHandlers'[run'[r].dev]]_vars

\* C17 (as claimed): from Connected the status becomes Disconnected only by
\* the disconnect observer firing (or the page being loaded again).
C17_OnlyObserverDisconnects ==
    [][(status = "Connected" /\ status' = "Disconnected")
       => (Reload \/ \E d \in Devices : gattserverdisconnected(d))]_vars

\* Run r enters connectToDevice in this step.
BeginsConnect(r) == run[r].pc # "connect" /\ run'[r].pc = "connect"

\* C18 (as claimed): after a connectToDevice of a run failed resolving the
\* service or the characteristic, the run enters connectToDevice no more.
C18_NoAttemptAfterNegotiationFailure ==
    [][\A r \in RunIds : run[r].neg # {} => ~BeginsConnect(r)]_vars

\* C18 (amended): such a failure ends that connectToDevice with the result
\* "failed" and the attempt is not made again on its tier: the startup run
\* ends there, a click's run escalates as after any failure, and what it
\* attempts next is on a later tier.
C18_EscalatesAfterNegotiationFailure ==
    /\ [](run[Auto].neg = {})
    /\ [][\A r \in RunIds :
            /\ (\E e \in Errors : TransportRejected(r, e) /\ Negotiating(run[r]))
               => /\ run'[r].ret = "failed"
                  /\ run'[r].pc \in {"getDevices", "requestDevice", "done"}
                  /\ r = Auto => run'[r].pc = "done"
            /\ (run[r].neg # {} /\ BeginsConnect(r))
               => r \in ClickRuns /\ \A t \in run[r].neg : run'[r].tier > t]_vars

C18_Witness ==
    \E r \in ClickRuns :
        /\ run[r].neg = {1, 2} /\ run[r].tier = 3 /\ run[r].pc = "connect"

\* C19 (as claimed): a failed attempt on the device found by getDevices(),
\* in the startup run or in a click's run, does not set the error status.
C19_SilentAttemptSuppressed ==
    \A r \in RunIds : \A f \in run[r].fails : f.tier \in {0, 2} => ~f.shown

\* C19 (amended): the startup run's attempt on the device found by
\* getDevices() is made with suppressErrorStatus, and its failure does not
\* set the error status; a click's run makes the same attempt without the
\* option, and its failure sets the error status.
C19_AutoAttemptSuppressed ==
    /\ [](\A r \in RunIds : \A f \in run[r].fails :
            /\ f.tier = 0 => r = Auto /\ ~f.shown
            /\ f.tier = 2 => r \in ClickRuns /\ f.shown)
    /\ [][\A e \in Errors :
            TransportRejected(Auto, e) => status' \in {Waiting, "Auto reconnect failed"}]_vars

C19_Witness ==
    /\ run[Auto].fails = {[tier |-> 0, shown |-> FALSE]}
    /\ \E r \in ClickRuns : [tier |-> 2, shown |-> TRUE] \in run[r].fails

\* C20: when connectToDevice fails at any of its awaited calls: without
\* suppressErrorStatus the status becomes "Error / Cancelled", with it the
\* catch block sets no status, and either way { ok: false } is returned.
C20_FailureStatusBySuppress ==
    /\ [](\A r \in RunIds :
            InConnect(run[r]) =>
                LET A == connectToDeviceCatch(Cur(r), FALSE)
                    B == connectToDeviceCatch(Cur(r), TRUE)
                IN  /\ A.ret = "failed" /\ B.ret = "failed"
                    /\ A.S.status = "Error / Cancelled" /\ A.S.sets = {"Error / Cancelled"}
                    /\ B.S.status = status /\ B.S.sets = {})
    /\ [][\A r \in RunIds :
            (\E e \in Errors : TransportRejected(r, e))
            => /\ run'[r].ret = "failed"
               /\ [tier |-> run[r].tier, shown |-> ~suppressErrorStatus(run[r].tier)]
                      \in run'[r].fails]_vars

C20_Witness ==
    /\ status = "Error / Cancelled"
    /\ run[Auto].pc = "connect" /\ run[Auto].fails = {}
    /\ \E r \in ClickRuns :
           /\ run[r].pc = "done" /\ run[r].ret = "failed"
           /\ \A t \in 1..3 : [tier |-> t, shown |-> TRUE] \in run[r].fails

\* Run r calls getDevices() in this step; run r opens the chooser in this
\* step; the attempt of run r on its tier fails in this step.
EntersGetDevices(r) == run[r].pc # "getDevices" /\ run'[r].pc = "getDevices"
EntersChooser(r) == run[r].pc # "requestDevice" /\ run'[r].pc = "requestDevice"
AttemptFails(r, t) == InConnect(run[r]) /\ run[r].tier = t /\ run'[r].ret = "failed"

\* The saved-devices lookup is not available: no remembered id, or no
\* getDevices().
NoQuickReconnect == store = NoId \/ ~hasBluetooth \/ ~hasGetDevices

\* C21: in a click's run the tiers come in order and only on escalation:
\* getDevices() is called only if no device is held in memory or the
\* in-memory attempt failed; the chooser is opened only if the lookup was
\* not available, found nothing (or rejected) or its attempt failed; each
\* attempt is on the tier its acquisition belongs to; and once an attempt
\* returned ok the run is over and makes no further call.
C21_TiersInOrder ==
    /\ [](\A r \in ClickRuns : run[r].ret = "ok" => run[r].pc = "done")
    /\ [][\A r \in ClickRuns :
            /\ EntersGetDevices(r)
               => \/ run[r].pc = "idle" /\ deviceRef = NoDev
                  \/ AttemptFails(r, 1)
            /\ EntersChooser(r)
               => \/ run[r].pc = "idle" /\ deviceRef = NoDev /\ NoQuickReconnect
                  \/ AttemptFails(r, 1) /\ NoQuickReconnect
                  \/ run[r].pc = "getDevices" /\ run[r].tier = 2
                  \/ AttemptFails(r, 2)
            /\ BeginsConnect(r)
               => \/ run[r].pc = "idle" /\ deviceRef # NoDev /\ run'[r].tier = 1
                  \/ run[r].pc = "getDevices" /\ run'[r].tier = 2
                  \/ run[r].pc = "requestDevice" /\ run'[r].tier = 3
            /\ ~Reload => run'[r].tier >= run[r].tier
            /\ (run[r].pc = "done" /\ ~Reload) => run'[r] = run[r]]_vars

C21_Witness ==
    \E r \in ClickRuns :
        /\ run[r].pc = "done" /\ run[r].ret = "ok" /\ run[r].tier = 3
        /\ run[r].fails = {[tier |-> 1, shown |-> TRUE], [tier |-> 2, shown |-> TRUE]}
        /\ run[r].calls = {"connect", "getDevices", "requestDevice"}
        /\ status = "Connected"

\* The payload listeners that can deliver: those on the characteristic of a
\* link that is up.
Live == {c \in listeners : linkUp[c[1]] /\ linkGen[c[1]] = c[2]}

\* C22 (as claimed): whenever the status is Connected, charRef holds the
\* characteristic the live payload listener is registered on: it is not
\* empty, and it is the one characteristic with a live listener.
C22_CharRefIsListened ==
    status = "Connected" => charRef # NoChar /\ Live = {charRef}

\* The statuses of a step on the way.
Transient == {"Requesting device", "Connecting"}

\* C23 (as claimed): a run makes at most one attempt per tier and, once no
\* run is suspended at a Web Bluetooth call, the status is not left at
\* "Requesting device" or "Connecting".
C23_NoTransientStatusLeft ==
    /\ []((\A r \in RunIds : ~Pending(run[r])) => status \notin Transient)
    /\ [][\A r \in RunIds :
            BeginsConnect(r) => \A f \in run[r].fails : f.tier < run'[r].tier]_vars

====
